---- MODULE Spec2Model ----
(***************************************************************************)
(* Model of convert.py: the conversion of a Kaspersky Password Manager     *)
(* text export into a Google-Passwords compatible CSV table.               *)
(*                                                                         *)
(* A Python str is a sequence of one-character strings.  Python indices    *)
(* are 0-based and are kept 0-based in find, rfind and Slice; None is the  *)
(* empty tuple and a set Optional[str] value s is the one-element tuple    *)
(* <<s>>.                                                                  *)
(***************************************************************************)
EXTENDS Integers, Sequences, FiniteSets, TLC

VARIABLES
    pc,                 \* position of main: the statement to run next
    arguments,          \* sys.argv
    file_exists,        \* whether txt_file_path.exists()
    diagnostic,         \* message of the assertion / exception that ended main
    new_csv_file_name,  \* main's local, None until computed
    source,             \* how the input file is laid out (blocks per section)
    text_file_content,  \* txt_file_path.read_text()
    sections,           \* the three extractor results
    raw_dicts,          \* websites_dicts, applications_dicts, notes_dicts
    entries,            \* KasperskyPasswordManagerEntriesSet
    passwords_df,       \* result of create_google_passwords_df_from_entries
    csv_writes          \* sequence of <<file name, table>> written by to_csv

vars ==
    <<pc, arguments, file_exists, diagnostic, new_csv_file_name, source,
      text_file_content, sections, raw_dicts, entries, passwords_df, csv_writes>>

\* Bound: total number of record blocks in an input file.
MaxBlocks ==
    3

None ==
    <<>>

Some(s) ==
    <<s>>

SetMax(S) ==
    CHOOSE x \in S : \A y \in S : y <= x

SetMin(S) ==
    CHOOSE x \in S : \A y \in S : x <= y

(***************************************************************************)
(* String literals of the source and of the modelled input files.         *)
(***************************************************************************)
\* "Websites\n\n"
WEBSITES_IDENTIFIER ==
    <<"W","e","b","s","i","t","e","s","\n","\n">>

\* "\n\n---\n\nApplications\n\n"
APPLICATIONS_IDENTIFIER ==
    <<"\n","\n","-","-","-","\n","\n","A","p","p","l","i","c","a","t","i","o","n","s","\n","\n">>

\* "\n\n---\n\nNotes\n\n"
NOTES_IDENTIFIER ==
    <<"\n","\n","-","-","-","\n","\n","N","o","t","e","s","\n","\n">>

\* "\n\n---\n"
EOF_IDENTIFIER ==
    <<"\n","\n","-","-","-","\n">>

\* "---"
ENTRY_SEPARATOR ==
    <<"-","-","-">>

\* ": "
KEY_VALUE_SEPARATOR ==
    <<":"," ">>

\* ".txt"
TXT_SUFFIX ==
    <<".","t","x","t">>

\* ".csv"
CSV_SUFFIX ==
    <<".","c","s","v">>

\* "Website name"
ALIAS_WEBSITE_NAME ==
    <<"W","e","b","s","i","t","e"," ","n","a","m","e">>

\* "Website URL"
ALIAS_WEBSITE_URL ==
    <<"W","e","b","s","i","t","e"," ","U","R","L">>

\* "Login name"
ALIAS_LOGIN_NAME ==
    <<"L","o","g","i","n"," ","n","a","m","e">>

\* "Login"
ALIAS_LOGIN ==
    <<"L","o","g","i","n">>

\* "Password"
ALIAS_PASSWORD ==
    <<"P","a","s","s","w","o","r","d">>

\* "Comment"
ALIAS_COMMENT ==
    <<"C","o","m","m","e","n","t">>

\* "Application"
ALIAS_APPLICATION ==
    <<"A","p","p","l","i","c","a","t","i","o","n">>

\* "Name"
ALIAS_NAME ==
    <<"N","a","m","e">>

\* "Text"
ALIAS_TEXT ==
    <<"T","e","x","t">>

\* "website_name"
FIELD_WEBSITE_NAME ==
    <<"w","e","b","s","i","t","e","_","n","a","m","e">>

\* "website_url"
FIELD_WEBSITE_URL ==
    <<"w","e","b","s","i","t","e","_","u","r","l">>

\* "login_name"
FIELD_LOGIN_NAME ==
    <<"l","o","g","i","n","_","n","a","m","e">>

\* "login"
FIELD_LOGIN ==
    <<"l","o","g","i","n">>

\* "password"
FIELD_PASSWORD ==
    <<"p","a","s","s","w","o","r","d">>

\* "comment"
FIELD_COMMENT ==
    <<"c","o","m","m","e","n","t">>

\* "application_name"
FIELD_APPLICATION_NAME ==
    <<"a","p","p","l","i","c","a","t","i","o","n","_","n","a","m","e">>

\* "note_name"
FIELD_NOTE_NAME ==
    <<"n","o","t","e","_","n","a","m","e">>

\* "text"
FIELD_TEXT ==
    <<"t","e","x","t">>

\* "Website name: Example\nWebsite URL: example.com\nLogin: bob\nPassword: secret1\nComment: work"
BlockExample ==
    <<"W","e","b","s","i","t","e"," ","n","a","m","e",":"," ","E","x","a","m","p","l","e","\n","W","e","b","s","i","t","e"," ","U","R","L",":"," ","e","x","a","m","p","l","e",".","c","o","m","\n","L","o","g","i","n",":"," ","b","o","b","\n","P","a","s","s","w","o","r","d",":"," ","s","e","c","r","e","t","1","\n","C","o","m","m","e","n","t",":"," ","w","o","r","k">>

\* "Website name: Ex\nWebsite URL: e.c\nPassword: s: 1"
BlockColonPassword ==
    <<"W","e","b","s","i","t","e"," ","n","a","m","e",":"," ","E","x","\n","W","e","b","s","i","t","e"," ","U","R","L",":"," ","e",".","c","\n","P","a","s","s","w","o","r","d",":"," ","s",":"," ","1">>

\* "Website name: \nWebsite URL: f.c\nPassword: p2"
BlockEmptyName ==
    <<"W","e","b","s","i","t","e"," ","n","a","m","e",":"," ","\n","W","e","b","s","i","t","e"," ","U","R","L",":"," ","f",".","c","\n","P","a","s","s","w","o","r","d",":"," ","p","2">>

\* "website_name: Gx\nwebsite_url: g.c\npassword: p3"
BlockFieldNames ==
    <<"w","e","b","s","i","t","e","_","n","a","m","e",":"," ","G","x","\n","w","e","b","s","i","t","e","_","u","r","l",":"," ","g",".","c","\n","p","a","s","s","w","o","r","d",":"," ","p","3">>

\* "Foo: bar\nnocolon"
BlockGarbage ==
    <<"F","o","o",":"," ","b","a","r","\n","n","o","c","o","l","o","n">>

\* "Application: app\nLogin: al\nPassword: ap\nComment: ac"
BlockApplication ==
    <<"A","p","p","l","i","c","a","t","i","o","n",":"," ","a","p","p","\n","L","o","g","i","n",":"," ","a","l","\n","P","a","s","s","w","o","r","d",":"," ","a","p","\n","C","o","m","m","e","n","t",":"," ","a","c">>

\* "Login: x\nPassword: y"
BlockNoApplication ==
    <<"L","o","g","i","n",":"," ","x","\n","P","a","s","s","w","o","r","d",":"," ","y">>

\* "application_name: zap"
BlockApplicationFieldName ==
    <<"a","p","p","l","i","c","a","t","i","o","n","_","n","a","m","e",":"," ","z","a","p">>

\* "Name: n\nText: t"
BlockNote ==
    <<"N","a","m","e",":"," ","n","\n","T","e","x","t",":"," ","t">>

\* "\n\n---\n\n"
BLOCK_JOIN ==
    <<"\n","\n","-","-","-","\n","\n">>

\* "\n---"
TRAILING_DELIMITER ==
    <<"\n","-","-","-">>

\* "convert.py"
PROGRAM ==
    <<"c","o","n","v","e","r","t",".","p","y">>

\* "a.txt"
PathTxt ==
    <<"a",".","t","x","t">>

\* "d/b.txt"
PathDirTxt ==
    <<"d","/","b",".","t","x","t">>

\* "c.csv"
PathCsv ==
    <<"c",".","c","s","v">>

\* "txt"
PathNoDot ==
    <<"t","x","t">>

(***************************************************************************)
(* Python str primitives used by the source.                               *)
(***************************************************************************)
\* s[i:i+len(p)] == p, i 0-based
MatchAt(s, p, i) ==
    /\ i + Len(p) <= Len(s)
    /\ \A k \in 1..Len(p) : s[i + k] = p[k]

\* str.find: lowest index of p in s, -1 when absent
find(s, p) ==
    LET hits == {i \in 0..Len(s) : MatchAt(s, p, i)}
    IN  IF hits = {} THEN -1 ELSE SetMin(hits)

\* str.rfind: highest index of p in s, -1 when absent
rfind(s, p) ==
    LET hits == {i \in 0..Len(s) : MatchAt(s, p, i)}
    IN  IF hits = {} THEN -1 ELSE SetMax(hits)

\* A slice bound that clamps a negative index to 0 instead of counting it
\* from the end.
SliceBoundClamped(i, n) ==
    IF i < 0 THEN 0 ELSE (IF i > n THEN n ELSE i)

\* a slice bound as Python normalises it: negative counts from the end,
\* then clamped into 0..len
SliceBound(i, n) ==
    IF i < 0
    THEN (IF i + n < 0 THEN 0 ELSE i + n)
    ELSE (IF i > n THEN n ELSE i)

\* s[start:end]
Slice(s, start, end) ==
    LET lo == SliceBound(start, Len(s))
        hi == SliceBound(end, Len(s))
    IN  IF lo >= hi THEN <<>> ELSE SubSeq(s, lo + 1, hi)

\* s.strip("\n")
strip_newlines(s) ==
    LET keep == {i \in 1..Len(s) : s[i] # "\n"}
    IN  IF keep = {} THEN <<>> ELSE SubSeq(s, SetMin(keep), SetMax(keep))

\* s.split(sep)
RECURSIVE split(_, _)
split(s, sep) ==
    LET i == find(s, sep)
    IN  IF i = -1
        THEN <<s>>
        ELSE <<SubSeq(s, 1, i)>> \o split(SubSeq(s, i + Len(sep) + 1, Len(s)), sep)

\* s.split(sep, maxsplit=1)
split_once(s, sep) ==
    LET i == find(s, sep)
    IN  IF i = -1
        THEN <<s>>
        ELSE <<SubSeq(s, 1, i), SubSeq(s, i + Len(sep) + 1, Len(s))>>

\* s.splitlines()
RECURSIVE splitlines(_)
splitlines(s) ==
    IF s = <<>>
    THEN <<>>
    ELSE LET i == find(s, <<"\n">>)
         IN  IF i = -1
             THEN <<s>>
             ELSE <<SubSeq(s, 1, i)>> \o splitlines(SubSeq(s, i + 2, Len(s)))

\* s.endswith(suffix)
endswith(s, suffix) ==
    /\ Len(suffix) <= Len(s)
    /\ SubSeq(s, Len(s) - Len(suffix) + 1, Len(s)) = suffix

\* s.removesuffix(suffix)
removesuffix(s, suffix) ==
    IF endswith(s, suffix) THEN SubSeq(s, 1, Len(s) - Len(suffix)) ELSE s

\* The whole path instead of its final component.
PathWhole(p) ==
    p

\* Path(p).name: the final path component
PathName(p) ==
    LET slashes == {i \in 1..Len(p) : p[i] = "/"}
    IN  IF slashes = {} THEN p ELSE SubSeq(p, SetMax(slashes) + 1, Len(p))

(***************************************************************************)
(* Parsing of one section into raw key/value dictionaries.                 *)
(***************************************************************************)
\* key_value_from_line: <<key, value>>
key_value_from_line(key_value) ==
    LET splitted == split_once(key_value, KEY_VALUE_SEPARATOR)
    IN  IF Len(splitted) = 1
        THEN <<splitted[1], <<>>>>
        ELSE <<splitted[1], splitted[2]>>

\* {pair[0]: pair[1] for pair in key_value_pairs}: a later pair overwrites
dict_from_pairs(key_value_pairs) ==
    [k \in {key_value_pairs[i][1] : i \in DOMAIN key_value_pairs} |->
        key_value_pairs[SetMax({i \in DOMAIN key_value_pairs :
                                    key_value_pairs[i][1] = k})][2]]

parse_colon_separated_key_value_pairs(entry) ==
    LET stripped == strip_newlines(entry)
        lines == splitlines(stripped)
        key_value_pairs == [i \in DOMAIN lines |-> key_value_from_line(lines[i])]
    IN  dict_from_pairs(key_value_pairs)

parse_entries_section(txt) ==
    LET raw == split(txt, ENTRY_SEPARATOR)
    IN  [i \in DOMAIN raw |-> parse_colon_separated_key_value_pairs(raw[i])]

(***************************************************************************)
(* The pydantic models.  Every field is Optional[str] with default None    *)
(* and is looked up by its alias.  The Config of the base class sets       *)
(* allow_population_by_alias = True: a pydantic that honours the option    *)
(* also accepts the field's own name when the alias is absent, one that    *)
(* does not know the option ignores it.  Both outcomes are modelled.       *)
(* The classmethods name_must_contain_space are not registered as          *)
(* validators and nothing calls them: no value is ever rewritten.          *)
(***************************************************************************)
AllowPopulationByAliasOutcomes ==
    BOOLEAN

populate(data, alias, name, by_name) ==
    IF alias \in DOMAIN data
    THEN Some(data[alias])
    ELSE IF by_name /\ name \in DOMAIN data
         THEN Some(data[name])
         ELSE None

KasperskyWebsiteEntry(data, by_name) ==
    [website_name |-> populate(data, ALIAS_WEBSITE_NAME, FIELD_WEBSITE_NAME, by_name),
     website_url  |-> populate(data, ALIAS_WEBSITE_URL, FIELD_WEBSITE_URL, by_name),
     login_name   |-> populate(data, ALIAS_LOGIN_NAME, FIELD_LOGIN_NAME, by_name),
     login        |-> populate(data, ALIAS_LOGIN, FIELD_LOGIN, by_name),
     password     |-> populate(data, ALIAS_PASSWORD, FIELD_PASSWORD, by_name),
     comment      |-> populate(data, ALIAS_COMMENT, FIELD_COMMENT, by_name)]

KasperskyApplicationEntry(data, by_name) ==
    [application_name |-> populate(data, ALIAS_APPLICATION, FIELD_APPLICATION_NAME, by_name),
     login_name       |-> populate(data, ALIAS_LOGIN_NAME, FIELD_LOGIN_NAME, by_name),
     login            |-> populate(data, ALIAS_LOGIN, FIELD_LOGIN, by_name),
     password         |-> populate(data, ALIAS_PASSWORD, FIELD_PASSWORD, by_name),
     comment          |-> populate(data, ALIAS_COMMENT, FIELD_COMMENT, by_name)]

KasperskyNoteEntry(data, by_name) ==
    [note_name |-> populate(data, ALIAS_NAME, FIELD_NOTE_NAME, by_name),
     text      |-> populate(data, ALIAS_TEXT, FIELD_TEXT, by_name)]

(***************************************************************************)
(* Section extraction.                                                     *)
(***************************************************************************)
extract_websites_from_txt_format(text) ==
    LET start_index == find(text, WEBSITES_IDENTIFIER) + Len(WEBSITES_IDENTIFIER)
        end_index == find(text, APPLICATIONS_IDENTIFIER)
    IN  strip_newlines(Slice(text, start_index, end_index))

extract_applications_from_txt_format(text) ==
    LET start_index == find(text, APPLICATIONS_IDENTIFIER) + Len(APPLICATIONS_IDENTIFIER)
        end_index == find(text, NOTES_IDENTIFIER)
    IN  strip_newlines(Slice(text, start_index, end_index))

extract_notes_from_txt_format(text) ==
    LET start_index == find(text, NOTES_IDENTIFIER) + Len(NOTES_IDENTIFIER)
        end_index == rfind(text, EOF_IDENTIFIER)
    IN  strip_newlines(Slice(text, start_index, end_index))

extract_sections(text) ==
    [websites     |-> extract_websites_from_txt_format(text),
     applications |-> extract_applications_from_txt_format(text),
     notes        |-> extract_notes_from_txt_format(text)]

\* websites_dicts, applications_dicts, notes_dicts of extract_entries_from_txt_format
parse_sections(extracted) ==
    [websites     |-> parse_entries_section(extracted.websites),
     applications |-> parse_entries_section(extracted.applications),
     notes        |-> parse_entries_section(extracted.notes)]

KasperskyPasswordManagerEntriesSet(dicts, by_name) ==
    [websites     |-> [i \in DOMAIN dicts.websites |->
                          KasperskyWebsiteEntry(dicts.websites[i], by_name)],
     applications |-> [i \in DOMAIN dicts.applications |->
                          KasperskyApplicationEntry(dicts.applications[i], by_name)],
     notes        |-> [i \in DOMAIN dicts.notes |->
                          KasperskyNoteEntry(dicts.notes[i], by_name)]]

extract_entries_from_txt_format(text, by_name) ==
    KasperskyPasswordManagerEntriesSet(parse_sections(extract_sections(text)), by_name)

(***************************************************************************)
(* Flattening into the table.  numpy and pandas are modelled by what the   *)
(* calls of the source do: np.array of an empty list is 1-dimensional      *)
(* (shape (0,)), of a non-empty list of 4-element rows 2-dimensional;      *)
(* np.concatenate raises ValueError when the dimensions of its arguments   *)
(* differ; DataFrame(data, columns) reshapes 1-dimensional data to one     *)
(* column and raises ValueError when the number of columns differs from    *)
(* the number of column labels.                                            *)
(***************************************************************************)
COLUMNS ==
    <<"url", "username", "password", "note">>

\* Python truthiness of an Optional[str]: neither None nor ""
Truthy(value) ==
    value # None /\ value[1] # <<>>

ValueError ==
    [kind |-> "ValueError", columns |-> <<>>, rows |-> <<>>]

np_array(rows) ==
    [ndim |-> IF rows = <<>> THEN 1 ELSE 2, rows |-> rows]

np_concatenate(a, b) ==
    IF a.ndim # b.ndim
    THEN ValueError
    ELSE [kind |-> "ndarray", ndim |-> a.ndim, rows |-> a.rows \o b.rows]

DataFrame(data, columns) ==
    IF data.kind = "ValueError"
    THEN ValueError
    ELSE LET width == IF data.ndim = 1 THEN 1 ELSE Len(data.rows[1])
         IN  IF width # Len(columns)
             THEN ValueError
             ELSE [kind |-> "DataFrame", columns |-> columns, rows |-> data.rows]

\* DataFrame(): no columns, no rows
EmptyDataFrame ==
    [kind |-> "DataFrame", columns |-> <<>>, rows |-> <<>>]

\* No filter on the website entries.
website_unfiltered(entry) ==
    TRUE

website_qualifies(entry) ==
    Truthy(entry.website_url) /\ Truthy(entry.website_name)

\* No filter on the application entries.
application_unfiltered(entry) ==
    TRUE

application_qualifies(entry) ==
    Truthy(entry.application_name)

website_row(entry) ==
    <<entry.website_url, entry.login, entry.password, entry.comment>>

application_row(entry) ==
    <<entry.application_name, entry.login, entry.password, entry.comment>>

RECURSIVE website_rows(_)
website_rows(websites) ==
    IF websites = <<>>
    THEN <<>>
    ELSE (IF website_qualifies(Head(websites))
          THEN <<website_row(Head(websites))>>
          ELSE <<>>) \o website_rows(Tail(websites))

RECURSIVE application_rows(_)
application_rows(applications) ==
    IF applications = <<>>
    THEN <<>>
    ELSE (IF application_qualifies(Head(applications))
          THEN <<application_row(Head(applications))>>
          ELSE <<>>) \o application_rows(Tail(applications))

create_google_passwords_df_from_entries(e) ==
    IF e.websites = <<>> /\ e.applications = <<>>
    THEN EmptyDataFrame
    ELSE LET websites_entries == np_array(website_rows(e.websites))
             applications_entries == np_array(application_rows(e.applications))
         IN  DataFrame(np_concatenate(websites_entries, applications_entries), COLUMNS)

(***************************************************************************)
(* Input files.  A file is laid out as the export format lays it out: the  *)
(* Websites marker, the website blocks, the Applications marker, the       *)
(* application blocks, the Notes marker, the note blocks, the closing      *)
(* marker; blocks of one section are separated by a "---" line.  A shape   *)
(* other than "complete" leaves one marker out or ends the Websites        *)
(* section with a "---" delimiter.                                         *)
(***************************************************************************)
WebsiteBlocks ==
    {BlockExample, BlockColonPassword, BlockEmptyName, BlockFieldNames, BlockGarbage}

ApplicationBlocks ==
    {BlockApplication, BlockNoApplication, BlockApplicationFieldName}

NoteBlocks ==
    {BlockNote}

Shapes ==
    {"complete", "trailing_delimiter", "no_websites_marker",
     "no_applications_marker", "no_notes_marker", "no_closing_marker"}

SeqsUpTo(S, n) ==
    UNION {[1..k -> S] : k \in 0..n}

RECURSIVE join_blocks(_)
join_blocks(blocks) ==
    IF blocks = <<>>
    THEN <<>>
    ELSE IF Len(blocks) = 1
         THEN blocks[1]
         ELSE blocks[1] \o BLOCK_JOIN \o join_blocks(Tail(blocks))

Unless(shape, marker) ==
    IF shape THEN <<>> ELSE marker

FileText(src) ==
    Unless(src.shape = "no_websites_marker", WEBSITES_IDENTIFIER)
    \o join_blocks(src.websites)
    \o Unless(src.shape # "trailing_delimiter", TRAILING_DELIMITER)
    \o Unless(src.shape = "no_applications_marker", APPLICATIONS_IDENTIFIER)
    \o join_blocks(src.applications)
    \o Unless(src.shape = "no_notes_marker", NOTES_IDENTIFIER)
    \o join_blocks(src.notes)
    \o Unless(src.shape = "no_closing_marker", EOF_IDENTIFIER)

NoSource ==
    [websites |-> <<>>, applications |-> <<>>, notes |-> <<>>, shape |-> "unread"]

ArgumentLists ==
    {<<PROGRAM>>,
     <<PROGRAM, PathTxt>>,
     <<PROGRAM, PathDirTxt>>,
     <<PROGRAM, PathCsv>>,
     <<PROGRAM, PathNoDot>>,
     <<PROGRAM, PathTxt, PathTxt>>,
     <<PROGRAM, PathCsv, PathTxt>>}

(***************************************************************************)
(* main, one action per statement.                                         *)
(***************************************************************************)
USAGE ==
    "USAGE: convert.py dd-mm-yyyy.txt"

ONLY_TXT ==
    "Supporting only .txt files"

NOT_EXIST ==
    "The file does not exist"

Init ==
    /\ pc = "assert_arguments"
    /\ arguments \in ArgumentLists
    /\ file_exists \in BOOLEAN
    /\ diagnostic = ""
    /\ new_csv_file_name = None
    /\ source = NoSource
    /\ text_file_content = None
    /\ sections = None
    /\ raw_dicts = None
    /\ entries = None
    /\ passwords_df = None
    /\ csv_writes = <<>>

Fail(message) ==
    /\ pc' = "failed"
    /\ diagnostic' = message

\* assert len(arguments) == 2; txt_file_path = Path(arguments[1])
AssertArguments ==
    /\ pc = "assert_arguments"
    /\ IF Len(arguments) = 2
       THEN pc' = "assert_suffix" /\ UNCHANGED diagnostic
       ELSE Fail(USAGE)
    /\ UNCHANGED <<arguments, file_exists, new_csv_file_name, source,
                   text_file_content, sections, raw_dicts, entries, passwords_df,
                   csv_writes>>

\* assert txt_file_path.name.endswith(".txt"); new_csv_file_name = ...
AssertSuffix ==
    /\ pc = "assert_suffix"
    /\ LET name == PathName(arguments[2])
       IN  IF endswith(name, TXT_SUFFIX)
           THEN /\ new_csv_file_name' = Some(removesuffix(name, TXT_SUFFIX) \o CSV_SUFFIX)
                /\ pc' = "assert_exists"
                /\ UNCHANGED diagnostic
           ELSE /\ Fail(ONLY_TXT)
                /\ UNCHANGED new_csv_file_name
    /\ UNCHANGED <<arguments, file_exists, source, text_file_content, sections,
                   raw_dicts, entries, passwords_df, csv_writes>>

\* assert txt_file_path.exists()
AssertExists ==
    /\ pc = "assert_exists"
    /\ IF file_exists
       THEN pc' = "convert" /\ UNCHANGED diagnostic
       ELSE Fail(NOT_EXIST)
    /\ UNCHANGED <<arguments, file_exists, new_csv_file_name, source,
                   text_file_content, sections, raw_dicts, entries, passwords_df,
                   csv_writes>>

\* The exception is swallowed and main goes on to to_csv.
PropagateSwallowed(df) ==
    pc' = "to_csv" /\ UNCHANGED diagnostic

\* An exception raised inside the conversion is not caught: main ends with it
\* and never reaches to_csv.
Propagate(df) ==
    IF df.kind = "DataFrame"
    THEN pc' = "to_csv" /\ UNCHANGED diagnostic
    ELSE Fail("ValueError")

\* passwords_df = convert_txt_file_to_google_passwords_compatible_csv(txt_file_path):
\* read_text, extract_entries_from_txt_format, create_google_passwords_df_from_entries
Convert ==
    /\ pc = "convert"
    /\ \E w \in SeqsUpTo(WebsiteBlocks, MaxBlocks) :
       \E a \in SeqsUpTo(ApplicationBlocks, MaxBlocks - Len(w)) :
       \E n \in SeqsUpTo(NoteBlocks, MaxBlocks - Len(w) - Len(a)) :
       \E shape \in Shapes :
       \E src \in {[websites |-> w, applications |-> a, notes |-> n, shape |-> shape]} :
       \E text \in {FileText(src)} :
       \E extracted \in {extract_sections(text)} :
       \E dicts \in {parse_sections(extracted)} :
       \E by_name \in AllowPopulationByAliasOutcomes :
       \E es \in {KasperskyPasswordManagerEntriesSet(dicts, by_name)} :
       \E df \in {create_google_passwords_df_from_entries(es)} :
          /\ source' = src
          /\ text_file_content' = Some(text)
          /\ sections' = Some(extracted)
          /\ raw_dicts' = Some(dicts)
          /\ entries' = Some(es)
          /\ passwords_df' = Some(df)
          /\ Propagate(df)
    /\ UNCHANGED <<arguments, file_exists, new_csv_file_name, csv_writes>>

\* passwords_df.to_csv(new_csv_file_name, index=False)
ToCsv ==
    /\ pc = "to_csv"
    /\ csv_writes' = Append(csv_writes, <<new_csv_file_name[1], passwords_df[1]>>)
    /\ pc' = "done"
    /\ UNCHANGED <<arguments, file_exists, diagnostic, new_csv_file_name, source,
                   text_file_content, sections, raw_dicts, entries, passwords_df>>

Next ==
    \/ AssertArguments
    \/ AssertSuffix
    \/ AssertExists
    \/ Convert
    \/ ToCsv

Spec ==
    Init /\ [][Next]_vars

(***************************************************************************)
(* Vocabulary of the properties.                                           *)
(***************************************************************************)
\* "example.com"
ExampleUrl ==
    <<"e","x","a","m","p","l","e",".","c","o","m">>

\* "bob"
ExampleLogin ==
    <<"b","o","b">>

\* "secret1"
ExamplePassword ==
    <<"s","e","c","r","e","t","1">>

\* "work"
ExampleComment ==
    <<"w","o","r","k">>

\* "s: 1"
ColonPassword ==
    <<"s",":"," ","1">>

\* "b.csv"
DirTxtCsvName ==
    <<"b",".","c","s","v">>

WebsiteAliases ==
    {ALIAS_WEBSITE_NAME, ALIAS_WEBSITE_URL, ALIAS_LOGIN_NAME, ALIAS_LOGIN,
     ALIAS_PASSWORD, ALIAS_COMMENT}

ApplicationAliases ==
    {ALIAS_APPLICATION, ALIAS_LOGIN_NAME, ALIAS_LOGIN, ALIAS_PASSWORD, ALIAS_COMMENT}

NoteAliases ==
    {ALIAS_NAME, ALIAS_TEXT}

WebsiteFieldNames ==
    {FIELD_WEBSITE_NAME, FIELD_WEBSITE_URL, FIELD_LOGIN_NAME, FIELD_LOGIN,
     FIELD_PASSWORD, FIELD_COMMENT}

ApplicationFieldNames ==
    {FIELD_APPLICATION_NAME, FIELD_LOGIN_NAME, FIELD_LOGIN, FIELD_PASSWORD,
     FIELD_COMMENT}

NoteFieldNames ==
    {FIELD_NOTE_NAME, FIELD_TEXT}

AllNull(entry) ==
    \A f \in DOMAIN entry : entry[f] = None

\* The conversion has run (it returned a table or raised).
Converted ==
    entries # None

\* All four markers are present, in order.
AllMarkers ==
    source.shape \in {"complete", "trailing_delimiter"}

TableReturned ==
    passwords_df # None /\ passwords_df[1].kind = "DataFrame"

IsSubstring(sub, s) ==
    \E i \in 0..Len(s) : MatchAt(s, sub, i)

\* Rows of the entries whose discriminating fields are not None.
NonNullWebsiteRows(websites) ==
    LET kept == SelectSeq(websites,
                    LAMBDA e : e.website_url # None /\ e.website_name # None)
    IN  [i \in DOMAIN kept |-> website_row(kept[i])]

NonNullApplicationRows(applications) ==
    LET kept == SelectSeq(applications, LAMBDA e : e.application_name # None)
    IN  [i \in DOMAIN kept |-> application_row(kept[i])]

(***************************************************************************)
(* C1: for an input with the four markers in order, the conversion returns *)
(* a table whose rows are the qualifying website entries in source order   *)
(* followed by the qualifying application entries in source order, for     *)
(* every combination of counts, zero in one group included.                *)
(* Violated: with no qualifying entry in one group np.concatenate raises.  *)
(***************************************************************************)
C1_RowsAreQualifyingEntries ==
    (Converted /\ AllMarkers) =>
        /\ TableReturned
        /\ passwords_df[1].rows =
              website_rows(entries[1].websites)
              \o application_rows(entries[1].applications)

(***************************************************************************)
(* C2: the example block as the sole Websites block, with empty            *)
(* Applications and Notes sections: the conversion completes and yields    *)
(* exactly one row, url = example.com (no https:// prefix), username =     *)
(* bob, password = secret1, note = work.                                   *)
(* Violated: the conversion raises, there being no application row.        *)
(***************************************************************************)
C2_ExampleYieldsOneRow ==
    (/\ Converted
     /\ source = [websites |-> <<BlockExample>>, applications |-> <<>>,
                  notes |-> <<>>, shape |-> "complete"])
    => /\ pc \in {"to_csv", "done"}
       /\ TableReturned
       /\ passwords_df[1].rows =
             << <<Some(ExampleUrl), Some(ExampleLogin), Some(ExamplePassword),
                  Some(ExampleComment)>> >>

(***************************************************************************)
(* C3: when no website entry and no application entry qualifies, the       *)
(* flattening does not fail and returns a table with the four column       *)
(* headers url, username, password, note and zero rows.                    *)
(* Violated: DataFrame raises on the empty 1-dimensional array.            *)
(***************************************************************************)
C3_NoQualifyingEntryGivesHeaderOnly ==
    (/\ Converted
     /\ website_rows(entries[1].websites) = <<>>
     /\ application_rows(entries[1].applications) = <<>>)
    => /\ TableReturned
       /\ passwords_df[1].columns = COLUMNS
       /\ passwords_df[1].rows = <<>>

(***************************************************************************)
(* C4, as stated: a website entry is in the output table iff its           *)
(* website_url and website_name are both non-null, an application entry    *)
(* iff its application_name is non-null; an entry whose field is present   *)
(* with an empty value is therefore included.                              *)
(* Violated: the filter is Python truthiness, which drops "" as well.      *)
(***************************************************************************)
C4_IncludedIffNonNull ==
    TableReturned =>
        passwords_df[1].rows =
            NonNullWebsiteRows(entries[1].websites)
            \o NonNullApplicationRows(entries[1].applications)

(***************************************************************************)
(* C4, amended: in every table the flattening returns, a website entry has *)
(* a row iff its website_url and website_name are both neither null nor    *)
(* empty, an application entry iff its application_name is neither null    *)
(* nor empty; the rows keep the order of the entries, websites first.      *)
(***************************************************************************)
NonEmpty(value) ==
    value \notin {None, Some(<<>>)}

C4_IncludedIffNonEmpty ==
    TableReturned =>
        LET websites == SelectSeq(entries[1].websites,
                            LAMBDA e : NonEmpty(e.website_url) /\ NonEmpty(e.website_name))
            applications == SelectSeq(entries[1].applications,
                                LAMBDA e : NonEmpty(e.application_name))
        IN  passwords_df[1].rows =
                [i \in DOMAIN websites |->
                    <<websites[i].website_url, websites[i].login,
                      websites[i].password, websites[i].comment>>]
                \o [i \in DOMAIN applications |->
                    <<applications[i].application_name, applications[i].login,
                      applications[i].password, applications[i].comment>>]

\* A table was written that leaves out a website entry whose name is the
\* empty string.
C4_Witness ==
    /\ pc = "done"
    /\ \E i \in DOMAIN entries[1].websites :
          /\ entries[1].websites[i].website_name = Some(<<>>)
          /\ entries[1].websites[i].website_url # None
    /\ \E r \in DOMAIN passwords_df[1].rows :
          passwords_df[1].rows[r][3] = Some(ExamplePassword)

(***************************************************************************)
(* C5: every website entry of the input with Website URL and Website name  *)
(* set and a Password value p yields an output row whose password column   *)
(* is p exactly, also when p contains ": ".                                *)
(* Violated: no row at all is produced when np.concatenate raises (C1).    *)
(***************************************************************************)
SourcePassword(block) ==
    IF block = BlockExample THEN ExamplePassword ELSE ColonPassword

C5_PasswordRoundTrip ==
    (Converted /\ source.shape = "complete") =>
        \A i \in DOMAIN source.websites :
            source.websites[i] \in {BlockExample, BlockColonPassword} =>
                /\ TableReturned
                /\ \E r \in DOMAIN passwords_df[1].rows :
                      passwords_df[1].rows[r][3] =
                          Some(SourcePassword(source.websites[i]))

(***************************************************************************)
(* C6, as stated: a block none of whose keys is a recognized label of its  *)
(* section gives a record with all fields null, which is not in the table; *)
(* keys equal to an internal field name never populate a field.            *)
(* Violated where pydantic honours allow_population_by_alias.              *)
(***************************************************************************)
NoRowOfAnAllNullEntry ==
    TableReturned =>
        /\ \A r \in DOMAIN passwords_df[1].rows : passwords_df[1].rows[r][1] # None
        /\ Len(passwords_df[1].rows) <=
              Cardinality({i \in DOMAIN entries[1].websites :
                              ~AllNull(entries[1].websites[i])})
              + Cardinality({i \in DOMAIN entries[1].applications :
                                ~AllNull(entries[1].applications[i])})

UnknownKeysGiveAllNull(known_websites, known_applications, known_notes) ==
    /\ \A i \in DOMAIN raw_dicts[1].websites :
          DOMAIN raw_dicts[1].websites[i] \cap known_websites = {}
              => AllNull(entries[1].websites[i])
    /\ \A i \in DOMAIN raw_dicts[1].applications :
          DOMAIN raw_dicts[1].applications[i] \cap known_applications = {}
              => AllNull(entries[1].applications[i])
    /\ \A i \in DOMAIN raw_dicts[1].notes :
          DOMAIN raw_dicts[1].notes[i] \cap known_notes = {}
              => AllNull(entries[1].notes[i])

C6_OnlyLabelsPopulate ==
    Converted =>
        /\ UnknownKeysGiveAllNull(WebsiteAliases, ApplicationAliases, NoteAliases)
        /\ NoRowOfAnAllNullEntry

(***************************************************************************)
(* C6, amended: a block none of whose keys is a recognized label or an     *)
(* internal field name of its section's record gives a record with all     *)
(* fields null, and no row of the table comes from an all-null record.     *)
(***************************************************************************)
C6_NeitherLabelNorFieldNamePopulates ==
    Converted =>
        /\ UnknownKeysGiveAllNull(WebsiteAliases \cup WebsiteFieldNames,
                                  ApplicationAliases \cup ApplicationFieldNames,
                                  NoteAliases \cup NoteFieldNames)
        /\ NoRowOfAnAllNullEntry

\* A table with rows was written although a website block held only
\* unknown keys.
C6_Witness ==
    /\ pc = "done"
    /\ passwords_df[1].rows # <<>>
    /\ \E i \in DOMAIN raw_dicts[1].websites :
          /\ DOMAIN raw_dicts[1].websites[i] # {}
          /\ DOMAIN raw_dicts[1].websites[i]
                \cap (WebsiteAliases \cup WebsiteFieldNames) = {}

(***************************************************************************)
(* C7: main ends with a diagnostic and a failure, the conversion not       *)
(* started, when the argument list has not exactly two elements, when the  *)
(* file name does not end in ".txt", when the file does not exist, the     *)
(* checks being made in that order; when all three pass, the output file   *)
(* name is the input file name with ".txt" replaced by ".csv".             *)
(***************************************************************************)
ConversionNotStarted ==
    /\ source = NoSource
    /\ text_file_content = None
    /\ entries = None
    /\ passwords_df = None
    /\ csv_writes = <<>>

C7_MainChecksInOrder ==
    LET two == Len(arguments) = 2
        txt == endswith(PathName(arguments[2]), TXT_SUFFIX)
    IN  /\ (pc # "assert_arguments" /\ ~two) =>
              pc = "failed" /\ diagnostic = USAGE /\ ConversionNotStarted
        /\ (pc \notin {"assert_arguments", "assert_suffix"} /\ two /\ ~txt) =>
              pc = "failed" /\ diagnostic = ONLY_TXT /\ ConversionNotStarted
        /\ (/\ pc \notin {"assert_arguments", "assert_suffix", "assert_exists"}
            /\ two /\ txt /\ ~file_exists) =>
              pc = "failed" /\ diagnostic = NOT_EXIST /\ ConversionNotStarted
        /\ (pc \in {"convert", "to_csv", "done"} \/ Converted) =>
              /\ two /\ txt /\ file_exists
              /\ LET name == PathName(arguments[2])
                 IN  new_csv_file_name =
                        Some(SubSeq(name, 1, Len(name) - Len(TXT_SUFFIX)) \o CSV_SUFFIX)
              /\ arguments[2] = PathDirTxt => new_csv_file_name = Some(DirTxtCsvName)

\* The suffix check failed for a file that does not exist either.
C7_Witness ==
    /\ pc = "failed"
    /\ diagnostic = ONLY_TXT
    /\ ~file_exists

(***************************************************************************)
(* C8: in the returned entries set the length of websites, applications    *)
(* and notes equals the number of record blocks of the section, a trailing *)
(* empty block discarded; an empty section gives length 0.                 *)
(* Violated: "".split("---") is [""], so an empty section gives one        *)
(* all-null entry.                                                         *)
(***************************************************************************)
C8_LengthsEqualBlockCounts ==
    (Converted /\ AllMarkers) =>
        /\ Len(entries[1].websites) = Len(source.websites)
        /\ Len(entries[1].applications) = Len(source.applications)
        /\ Len(entries[1].notes) = Len(source.notes)

(***************************************************************************)
(* C9: when a section marker is absent from the input, the extractors and  *)
(* extract_entries_from_txt_format raise nothing: find's -1 enters the     *)
(* slice arithmetic, every extractor returns a substring of the input, and *)
(* an entries set is returned.                                             *)
(***************************************************************************)
C9_MissingMarkerStillExtracts ==
    (text_file_content # None /\ ~AllMarkers) =>
        LET text == text_file_content[1]
            n == Len(text)
        IN  /\ sections # None
            /\ IsSubstring(sections[1].websites, text)
            /\ IsSubstring(sections[1].applications, text)
            /\ IsSubstring(sections[1].notes, text)
            \* end_index = -1: everything up to the last character
            /\ source.shape = "no_applications_marker" =>
                  sections[1].websites =
                      strip_newlines(SubSeq(text, Len(WEBSITES_IDENTIFIER) + 1, n - 1))
            /\ source.shape = "no_notes_marker" =>
                  sections[1].applications =
                      strip_newlines(SubSeq(text,
                          find(text, APPLICATIONS_IDENTIFIER)
                              + Len(APPLICATIONS_IDENTIFIER) + 1, n - 1))
            \* start_index = -1 + len(marker)
            /\ source.shape = "no_websites_marker" =>
                  sections[1].websites =
                      strip_newlines(SubSeq(text, Len(WEBSITES_IDENTIFIER),
                                            find(text, APPLICATIONS_IDENTIFIER)))
            /\ Converted
            /\ Len(entries[1].websites) >= 1
            /\ Len(entries[1].applications) >= 1
            /\ Len(entries[1].notes) >= 1

\* The Applications marker is absent and the Websites extractor returned
\* the rest of the file but its last character.
C9_Witness ==
    /\ Converted
    /\ source.shape = "no_applications_marker"
    /\ source.applications # <<>>
    /\ Len(sections[1].websites) > Len(join_blocks(source.websites))

(***************************************************************************)
(* C10: the output file is written at most once and only as the last step, *)
(* after the three checks passed and the conversion returned a table; a    *)
(* run that fails creates or modifies no output file.                      *)
(***************************************************************************)
C10_OutputWrittenOnceAtTheEnd ==
    /\ Len(csv_writes) <= 1
    /\ pc = "failed" => csv_writes = <<>>
    /\ csv_writes # <<>> =>
          /\ pc = "done"
          /\ Len(arguments) = 2
          /\ endswith(PathName(arguments[2]), TXT_SUFFIX)
          /\ file_exists
          /\ TableReturned
          /\ csv_writes[1] = <<new_csv_file_name[1], passwords_df[1]>>
    /\ pc = "done" => Len(csv_writes) = 1

\* A run that wrote its table.
C10_Witness ==
    /\ pc = "done"
    /\ Len(csv_writes) = 1
    /\ csv_writes[1][2].rows # <<>>

====
